---- MODULE Spec2Model ----
(***************************************************************************)
(* The conversation agent of the gemini_function_calling integration       *)
(* (custom_components/gemini_function_calling/__init__.py):                *)
(* GoogleGenerativeAIAgent.async_process, one conversation turn, with the  *)
(* agent's history mapping, the chat session it opens on the remote model  *)
(* and the host service calls it dispatches.                               *)
(*                                                                         *)
(* Python lists are objects: self.history maps a conversation id to a      *)
(* list object, and `messages` and the chat session's history are          *)
(* references to list objects.  The model keeps a heap of list objects     *)
(* (lists) and stores references (indices into lists) in history.          *)
(*                                                                         *)
(* A turn is a coroutine.  It runs without interruption between two        *)
(* awaits, so there is one action per stretch of code between awaits.      *)
(*                                                                         *)
(* async_setup_entry and async_unload_entry, which set and unset the       *)
(* agent of a config entry and configure the key of the remote client,     *)
(* are modelled by the actions of SpecLifecycle.                           *)
(***************************************************************************)
EXTENDS Integers, Sequences, FiniteSets, TLC

\* ------------------------------------------------------------------ bounds

\* Number of turns (calls of async_process) one behaviour starts.
MaxTurns == 2

\* Number of turns one behaviour starts when turns may overlap.
MaxOverlapTurns == 3

\* Number of calls of async_setup_entry and async_unload_entry one behaviour
\* makes.
MaxLifecycleCalls == 4

\* Coroutines of async_process that can exist at once.
Slots == {1, 2}

\* ------------------------------------------------------------------ inputs

\* user_input.conversation_id when the caller starts a new conversation.
None == "None"

\* A conversation id supplied by the caller that the agent never minted.
ForeignIds == {"abc"}

\* user_input.text
Texts == {"light on"}

\* Outcomes of rendering the prompt template against the host state.
Prompts == {"You are HA at Home", "You are HA at Office"}

TemplateError == "TemplateError"

\* The failure kinds the except clause of lines 267-272 names.
RecognizedErrors ==
    {"ClientError", "ValueError", "BlockedPromptException", "StopCandidateException"}

\* A failure of the remote call that the except clause does not name (a
\* server-side error is no ClientError).
UnrecognizedErrors == {"ServerError"}

\* Failures of the second send, which no except clause guards: one kind the
\* first send's clause names and one it does not.
SecondSendErrors == {"ClientError", "ServerError"}

\* What hass.services.async_call raises when the host rejects the call.
HostErrors == {"ServiceNotFound"}

\* The config entries of the integration the host holds.
Entries == {"entry1", "entry2"}

\* entry.data[CONF_API_KEY]
ApiKeyOf(e) == IF e = "entry1" THEN "key1" ELSE "key2"

\* err.reason of the ClientError genai.get_model raises: the one
\* async_setup_entry tests for, and another.
ClientErrorReasons == {"API_KEY_INVALID", "PERMISSION_DENIED"}

\* How the lookup of the chat model ends: it returns the model, raises
\* ClientError with a reason, or raises an error that is no ClientError.
LookupOutcomes == {"ok"} \cup ClientErrorReasons \cup {"ServiceUnavailable"}

\* ------------------------------------------------------------------ contents

\* {} : the placeholder of the two-slot skeleton.
EmptyDict == [form |-> "dict"]

\* {"role": role, "parts": text}
DictMsg(role, text) == [form |-> "dict", role |-> role, parts |-> text]

\* glm.Part(text=...)
TextPart(s) == [text |-> s]

\* glm.Part(function_call=glm.FunctionCall(name, args))
FunctionCallPart(name, args) == [function_call |-> [name |-> name, args |-> args]]

\* glm.Content(role, parts)
Content(role, parts) == [form |-> "content", role |-> role, parts |-> parts]

\* content_types.to_content: a dict with a string for parts becomes a Content
\* with one text part, the empty dict an empty Content; a Content stays as
\* it is.
to_content(m) ==
    IF m.form = "content" THEN m
    ELSE IF "parts" \in DOMAIN m THEN Content(m.role, <<TextPart(m.parts)>>)
    ELSE Content("", <<>>)

\* content_types.to_contents: a new list of Contents.
to_contents(ms) == [i \in 1..Len(ms) |-> to_content(ms[i])]

\* part.function_call: the call carried by the part, or the empty
\* FunctionCall (name "") when the part carries none.
function_call(part) ==
    IF "function_call" \in DOMAIN part
    THEN part.function_call
    ELSE [name |-> "", args |-> <<>>]

\* The Content send_message_async builds from the user text (role user).
UserContent(text) == Content("user", <<TextPart(text)>>)

\* The Content received: the first candidate's content, role model.
ModelContent(response) == Content("model", response.parts)

\* The function-response message of lines 312-317 (the chat session gives it
\* the role user).
FunctionResponseContent(fc) ==
    Content("user",
            <<[function_response |->
                 [name |-> fc.name,
                  response |-> [result |-> <<"Running", fc.name, "with", fc.args,
                                             "Command ran successfully!">>]]]>>)

\* ------------------------------------------------------------------ replies

FirstTexts == {"It is on"}

SecondTexts == {"Done"}

\* Arguments of control_light: a command the declaration's description names
\* and one it does not (the schema types command as a plain string).
LightArgs == {[command |-> "turn_on"], [command |-> "toggle"]}

\* Arguments of set_heating_and_cooling: the declaration's first example.
ClimateArgs == {[cool_temp |-> 77, heat_temp |-> 74]}

Response(parts) == [parts |-> parts]

TextResponses(texts) == {Response(<<TextPart(s)>>) : s \in texts}

LightResponses == {Response(<<FunctionCallPart("control_light", a)>>) : a \in LightArgs}

ClimateResponses ==
    {Response(<<FunctionCallPart("set_heating_and_cooling", a)>>) : a \in ClimateArgs}

\* A call of a function the agent does not declare.
OtherResponses == {Response(<<FunctionCallPart("open_door", <<>>)>>)}

\* Replies of two parts: text before a call, and two calls.
TwoPartResponses ==
    {Response(<<TextPart("Done"), FunctionCallPart("control_light", [command |-> "turn_on"])>>),
     Response(<<FunctionCallPart("control_light", [command |-> "turn_off"]),
                FunctionCallPart("set_heating_and_cooling", [cool_temp |-> 77, heat_temp |-> 74])>>)}

\* What the remote model can answer to the user text.
FirstResponses ==
    TextResponses(FirstTexts) \cup LightResponses \cup ClimateResponses \cup OtherResponses
        \cup TwoPartResponses

\* What the remote model can answer to the function-response message.
SecondResponses ==
    TextResponses(SecondTexts)
        \cup {Response(<<FunctionCallPart("control_light", [command |-> "turn_on"])>>)}

\* response.text: the text of a reply of exactly one text part; anything else
\* raises ValueError.
IsSimpleText(response) ==
    Len(response.parts) = 1 /\ "text" \in DOMAIN response.parts[1]

\* ------------------------------------------------------------------ state

VARIABLES
    history,       \* self.history: conversation id -> reference to a list
    lists,         \* the heap of list objects: reference -> sequence of messages
    minted,        \* number of ids ulid_now() has returned
    turn,          \* the coroutine in each slot
    turnsStarted,  \* number of calls of async_process so far
    api_key,       \* the key genai is configured with (genai.configure)
    agents,        \* the entries the conversation component holds an agent for
    entry_calls,   \* per entry: the setup in flight, the last call that ended
    lifecycleCalls \* number of calls of async_setup_entry / async_unload_entry

\* The state async_setup_entry and async_unload_entry act on.
entryVars == <<api_key, agents, entry_calls, lifecycleCalls>>

vars == <<history, lists, minted, turn, turnsStarted, api_key, agents, entry_calls,
          lifecycleCalls>>

\* The content of self.history: conversation id -> sequence of messages.
Stored == [c \in DOMAIN history |-> lists[history[c]]]

NoResult == [kind |-> "none"]

IdleTurn ==
    [pc |-> "idle",
     input_id |-> None,
     text |-> "",
     conversation_id |-> None,
     prompt |-> "",
     chat |-> 0,
     received |-> <<>>,
     fc |-> [name |-> "", args |-> <<>>],
     sends |-> 0,
     calls |-> <<>>,
     result |-> NoResult,
     raised |-> [at |-> "", err |-> ""],
     pre |-> <<>>]

\* An entry no call has been made for.
NoCall == [call |-> "none", outcome |-> "none"]

NewEntry == [pc |-> "idle", last |-> NoCall, set_up |-> FALSE]

\* The entry after async_setup_entry returned True.
SetUpEntry ==
    [pc |-> "idle",
     last |-> [call |-> "async_setup_entry", outcome |-> "True"],
     set_up |-> TRUE]

\* GoogleGenerativeAIAgent.__init__: no conversation, no turn.
AgentInit ==
    /\ history = <<>>
    /\ lists = <<>>
    /\ minted = 0
    /\ turn = [p \in Slots |-> IdleTurn]
    /\ turnsStarted = 0

\* The agent as async_setup_entry of entry1 constructs and registers it.
Init ==
    /\ AgentInit
    /\ api_key = ApiKeyOf("entry1")
    /\ agents = {"entry1"}
    /\ entry_calls = [e \in Entries |-> IF e = "entry1" THEN SetUpEntry ELSE NewEntry]
    /\ lifecycleCalls = 1

\* The host before any entry is set up.
InitLifecycle ==
    /\ AgentInit
    /\ api_key = None
    /\ agents = {}
    /\ entry_calls = [e \in Entries |-> NewEntry]
    /\ lifecycleCalls = 0

\* ------------------------------------------------------------------ helpers

\* ulid.ulid_now(): an id never returned before.
ulid_now == ToString(minted + 1)

\* Ids the agent has handed out so far (in results of earlier turns).
MintedIds == {ToString(n) : n \in 1..minted}

\* What a caller can supply as user_input.conversation_id.
InputIds == {None} \cup ForeignIds \cup MintedIds

\* Resolve with a supplied id adopted although it is no key of self.history.
ResolveAdopt(id) ==
    IF id \in DOMAIN history
    THEN [known |-> TRUE, conversation_id |-> id]
    ELSE [known |-> FALSE, conversation_id |-> IF id = None THEN ulid_now ELSE id]

\* Lines 239-244: the conversation id of the turn; a supplied id is kept only
\* when it is a key of self.history, any other gets a new id.
Resolve(id) ==
    IF id \in DOMAIN history
    THEN [known |-> TRUE, conversation_id |-> id]
    ELSE [known |-> FALSE, conversation_id |-> ulid_now]

\* intent_response.async_set_error(UNKNOWN, "Sorry, I had a problem with my
\* template: {err}") wrapped in a ConversationResult.
TemplateErrorResult(cid, err) ==
    [kind |-> "error", code |-> "unknown",
     text |-> <<"Sorry, I had a problem with my template", err>>,
     conversation_id |-> cid]

\* intent_response.async_set_error(UNKNOWN, "Sorry, I had a problem talking to
\* Google Generative AI: {err}") wrapped in a ConversationResult.
RemoteErrorResult(cid, err) ==
    [kind |-> "error", code |-> "unknown",
     text |-> <<"Sorry, I had a problem talking to Google Generative AI", err>>,
     conversation_id |-> cid]

\* intent_response.async_set_speech(chat_response.text) wrapped in a
\* ConversationResult.
\* The speech of the result prefixed with the conversation id.
SpeechResultTagged(cid, response) ==
    [kind |-> "speech", text |-> <<cid, response.parts[1].text>>, conversation_id |-> cid]

SpeechResult(cid, response) ==
    [kind |-> "speech", text |-> response.parts[1].text, conversation_id |-> cid]

\* hass.services.async_call("homeassistant", fc.args["command"],
\*                          {"entity_id": "light.1234567890"}, False)
LightCall(fc) ==
    [domain |-> "homeassistant",
     service |-> fc.args.command,
     service_data |-> [entity_id |-> "light.1234567890"],
     blocking |-> FALSE]

\* ClimateCall with the two temperatures swapped.
ClimateCallSwapped(fc) ==
    [domain |-> "climate",
     service |-> "set_temperature",
     service_data |-> [target_temp_low |-> fc.args.cool_temp,
                       target_temp_high |-> fc.args.heat_temp,
                       entity_id |-> "climate.thermostat"],
     blocking |-> FALSE]

\* hass.services.async_call("climate", "set_temperature", {...}, False)
ClimateCall(fc) ==
    [domain |-> "climate",
     service |-> "set_temperature",
     service_data |-> [target_temp_low |-> fc.args.heat_temp,
                       target_temp_high |-> fc.args.cool_temp,
                       entity_id |-> "climate.thermostat"],
     blocking |-> FALSE]

\* SetPromptSlots without the assignment of slot 1.
SetPromptSlotsNoAck(messages, prompt) ==
    [messages EXCEPT ![1] = DictMsg("user", prompt)]

\* messages[0] = {"role": "user", "parts": prompt}
\* messages[1] = {"role": "model", "parts": "Ok"}
SetPromptSlots(messages, prompt) ==
    [messages EXCEPT ![1] = DictMsg("user", prompt), ![2] = DictMsg("model", "Ok")]

\* ChatHistoryFold with the list replaced by the exchange instead of extended.
ChatHistoryReplace(l, sent, response) == <<sent, ModelContent(response)>>

\* chat.history after an exchange: the session's own list, extended in place
\* by the message sent and the content received.
ChatHistoryFold(l, sent, response) == l \o <<sent, ModelContent(response)>>

\* FirstFunctionCall reading the last part instead of the first.
LastFunctionCall(response) == function_call(response.parts[Len(response.parts)])

\* fc = chat_response.candidates[0].content.parts[0].function_call
FirstFunctionCall(response) == function_call(response.parts[1])

\* The branch taken after the first reply (line 289) and after the light
\* call has completed (line 298).
IsLight(fc) == fc.name = "control_light"

IsClimate(fc) == fc.name = "set_heating_and_cooling"

\* ------------------------------------------------------------------ actions

\* The mapping rebuilt with the one key written, every other key lost.
SetItemAlone(cid, ref) == (cid :> ref)

\* No write at this point of the turn.
SetItemSkipped(cid, ref) == history

\* A write that keeps the list a key is already bound to.
SetItemIfAbsent(cid, ref) ==
    IF cid \in DOMAIN history THEN history ELSE (cid :> ref) @@ history

\* Line 284, self.history[conversation_id] = ...: the key is bound to the
\* list, every other key keeps its list.
SetItem(cid, ref) == (cid :> ref) @@ history

\* Slot p holds no coroutine that is still running.
CanStart(p) == turn[p].pc \in {"idle", "done", "raised"}

\* Lines 239-257: the conversation is resolved and rendering the prompt
\* raises TemplateError; the turn returns an error result.
StartTemplateError(p, id, text) ==
    /\ CanStart(p)
    /\ LET known == Resolve(id).known
           cid == Resolve(id).conversation_id
       IN /\ minted' = IF known THEN minted ELSE minted + 1
          /\ turn' = [turn EXCEPT ![p] =
                 [IdleTurn EXCEPT !.pc = "done",
                                  !.input_id = id,
                                  !.text = text,
                                  !.conversation_id = cid,
                                  !.result = TemplateErrorResult(cid, TemplateError),
                                  !.pre = Stored]]
    /\ turnsStarted' = turnsStarted + 1
    /\ UNCHANGED <<history, lists, entryVars>>

\* Lines 239-266: the conversation is resolved, the prompt renders, slots 0
\* and 1 of messages are assigned, the chat session is opened on a copy of
\* messages and the user text is sent; the coroutine awaits the reply.
StartSend(p, id, text, prompt) ==
    /\ CanStart(p)
    /\ LET known == Resolve(id).known
           cid == Resolve(id).conversation_id
           old == IF known THEN lists[history[cid]] ELSE <<EmptyDict, EmptyDict>>
           messages == SetPromptSlots(old, prompt)
           heap == IF known THEN [lists EXCEPT ![history[cid]] = messages] ELSE lists
       IN /\ minted' = IF known THEN minted ELSE minted + 1
          /\ lists' = Append(heap, to_contents(messages))
          /\ turn' = [turn EXCEPT ![p] =
                 [IdleTurn EXCEPT !.pc = "send1",
                                  !.input_id = id,
                                  !.text = text,
                                  !.conversation_id = cid,
                                  !.prompt = prompt,
                                  !.chat = Len(lists) + 1,
                                  !.sends = 1,
                                  !.pre = Stored]]
    /\ turnsStarted' = turnsStarted + 1
    /\ UNCHANGED <<history, entryVars>>

\* Lines 267-281: the first send raises a recognized failure; the turn
\* returns an error result.
Send1Fail(p, err) ==
    /\ turn[p].pc = "send1"
    /\ turn' = [turn EXCEPT ![p].pc = "done",
                            ![p].result = RemoteErrorResult(turn[p].conversation_id, err)]
    /\ UNCHANGED <<history, lists, minted, turnsStarted, entryVars>>

\* Line 266: the first send raises a failure the except clause does not
\* name; nothing catches it.
Send1Raise(p, err) ==
    /\ turn[p].pc = "send1"
    /\ turn' = [turn EXCEPT ![p].pc = "raised",
                            ![p].raised = [at |-> "send_message_async", err |-> err]]
    /\ UNCHANGED <<history, lists, minted, turnsStarted, entryVars>>

\* The function-response message sent without awaiting the climate call.
AfterFirstIfEarlySend(t) ==
    IF IsClimate(t.fc)
    THEN [t EXCEPT !.pc = "climate", !.calls = Append(t.calls, ClimateCall(t.fc)),
                   !.sends = t.sends + 1]
    ELSE [t EXCEPT !.pc = "send2", !.sends = t.sends + 1]

\* The stretch that follows the function call's dispatch, or its absence:
\* the function-response message is sent (line 312) and the coroutine awaits.
AfterFirstIf(t) ==
    IF IsClimate(t.fc)
    THEN [t EXCEPT !.pc = "climate", !.calls = Append(t.calls, ClimateCall(t.fc))]
    ELSE [t EXCEPT !.pc = "send2", !.sends = t.sends + 1]

\* Lines 283-312: the reply arrives; the chat history is stored under the
\* conversation id; the function call of the first part is read and the
\* matching host service is called, or the function response is sent at once.
Send1Ok(p, response) ==
    /\ turn[p].pc = "send1"
    /\ LET t == turn[p]
           fc == FirstFunctionCall(response)
           t1 == [t EXCEPT !.received = Append(t.received, response), !.fc = fc]
       IN /\ lists' = [lists EXCEPT ![t.chat] =
                           ChatHistoryFold(lists[t.chat], UserContent(t.text), response)]
          /\ history' = SetItem(t.conversation_id, t.chat)
          /\ turn' = [turn EXCEPT ![p] =
                 IF IsLight(fc)
                 THEN [t1 EXCEPT !.pc = "light", !.calls = Append(t1.calls, LightCall(fc))]
                 ELSE AfterFirstIf(t1)]
    /\ UNCHANGED <<minted, turnsStarted, entryVars>>

\* Lines 291-298: the light call completes; the second test of fc.name runs.
LightDone(p) ==
    /\ turn[p].pc = "light"
    /\ turn' = [turn EXCEPT ![p] = AfterFirstIf(turn[p])]
    /\ UNCHANGED <<history, lists, minted, turnsStarted, entryVars>>

\* Lines 300-312: the climate call completes; the function response is sent.
ClimateDone(p) ==
    /\ turn[p].pc = "climate"
    /\ turn' = [turn EXCEPT ![p].pc = "send2", ![p].sends = turn[p].sends + 1]
    /\ UNCHANGED <<history, lists, minted, turnsStarted, entryVars>>

\* The failure of the host service call surfacing only after the
\* function-response message has been sent.
DispatchRaiseAfterResponse(p, err) ==
    /\ turn[p].pc \in {"light", "climate"}
    /\ turn' = [turn EXCEPT ![p].pc = "raised",
                            ![p].sends = turn[p].sends + 1,
                            ![p].raised = [at |-> "async_call", err |-> err]]
    /\ UNCHANGED <<history, lists, minted, turnsStarted, entryVars>>

\* Lines 291 and 300: the host service call raises; nothing catches it.
DispatchRaise(p, err) ==
    /\ turn[p].pc \in {"light", "climate"}
    /\ turn' = [turn EXCEPT ![p].pc = "raised",
                            ![p].raised = [at |-> "async_call", err |-> err]]
    /\ UNCHANGED <<history, lists, minted, turnsStarted, entryVars>>

\* Line 312: the second send raises; nothing catches it.
Send2Fail(p, err) ==
    /\ turn[p].pc = "send2"
    /\ turn' = [turn EXCEPT ![p].pc = "raised",
                            ![p].raised = [at |-> "send_message_async", err |-> err]]
    /\ UNCHANGED <<history, lists, minted, turnsStarted, entryVars>>

\* Lines 312-328: the reply to the function response arrives; the loop over
\* chat.history extends the session's list by this exchange; the reply's
\* text becomes the speech of the result (response.text raises ValueError
\* when the reply is not one text part).
Send2Ok(p, response) ==
    /\ turn[p].pc = "send2"
    /\ LET t == turn[p]
           t1 == [t EXCEPT !.received = Append(t.received, response)]
       IN /\ lists' = [lists EXCEPT ![t.chat] =
                           ChatHistoryFold(lists[t.chat], FunctionResponseContent(t.fc),
                                           response)]
          /\ turn' = [turn EXCEPT ![p] =
                 IF IsSimpleText(response)
                 THEN [t1 EXCEPT !.pc = "done",
                                 !.result = SpeechResult(t.conversation_id, response)]
                 ELSE [t1 EXCEPT !.pc = "raised",
                                 !.raised = [at |-> "text", err |-> "ValueError"]]]
    /\ UNCHANGED <<history, minted, turnsStarted, entryVars>>

\* One step of the coroutine in slot p.
TurnStep(p) ==
    \/ /\ turnsStarted < MaxTurns
       /\ \E id \in InputIds, text \in Texts : StartTemplateError(p, id, text)
    \/ /\ turnsStarted < MaxTurns
       /\ \E id \in InputIds, text \in Texts, prompt \in Prompts :
              StartSend(p, id, text, prompt)
    \/ \E err \in RecognizedErrors : Send1Fail(p, err)
    \/ \E err \in UnrecognizedErrors : Send1Raise(p, err)
    \/ \E response \in FirstResponses : Send1Ok(p, response)
    \/ LightDone(p)
    \/ ClimateDone(p)
    \/ \E err \in HostErrors : DispatchRaise(p, err)
    \/ \E err \in SecondSendErrors : Send2Fail(p, err)
    \/ \E response \in SecondResponses : Send2Ok(p, response)

\* Turns one after the other: every call of async_process has returned (or
\* raised) before the next one is made.
Next == TurnStep(1)

Spec == Init /\ [][Next]_vars

\* Turns that overlap: the host may call async_process again while an
\* earlier call is suspended at an await.
NextConcurrent == \E p \in Slots : TurnStep(p)

SpecConcurrent == Init /\ [][NextConcurrent]_vars

\* Overlapping turns.  A caller starts a conversation (no id) while the agent
\* has stored none, and continues a stored one afterwards; the prompt renders
\* to one text; the remote model answers with text, a light call or a
\* climate call.
OverlapIds == IF DOMAIN history = {} THEN {None} ELSE DOMAIN history

OverlapPrompts == {"You are HA at Home"}

OverlapFirstResponses ==
    TextResponses(FirstTexts)
        \cup {Response(<<FunctionCallPart("control_light", [command |-> "turn_on"])>>)}
        \cup ClimateResponses

\* A new coroutine takes the first slot that holds no running one.
FirstFree(p) == CanStart(p) /\ \A q \in Slots : q < p => ~CanStart(q)

OverlapStep(p) ==
    \/ /\ turnsStarted < MaxOverlapTurns /\ FirstFree(p)
       /\ \E id \in OverlapIds, text \in Texts : StartTemplateError(p, id, text)
    \/ /\ turnsStarted < MaxOverlapTurns /\ FirstFree(p)
       /\ \E id \in OverlapIds, text \in Texts, prompt \in OverlapPrompts :
              StartSend(p, id, text, prompt)
    \/ Send1Fail(p, "ClientError")
    \/ Send1Raise(p, "ServerError")
    \/ \E response \in OverlapFirstResponses : Send1Ok(p, response)
    \/ LightDone(p)
    \/ ClimateDone(p)
    \/ \E err \in HostErrors : DispatchRaise(p, err)
    \/ Send2Fail(p, "ClientError")
    \/ \E response \in TextResponses(SecondTexts) : Send2Ok(p, response)

NextOverlap == \E p \in Slots : OverlapStep(p)

SpecOverlap == Init /\ [][NextOverlap]_vars

\* ------------------------------------------------------------------ entries

\* The agent set before the lookup of the model has been tried.
SetsAgentAlways(lookup) == TRUE

\* Lines 123-135: conversation.async_set_agent is reached only when the
\* lookup raised nothing.
SetsAgent(lookup) == lookup = "ok"

\* Lines 123-136: how async_setup_entry ends for each outcome of the lookup:
\* it returns True, returns False (ClientError, reason API_KEY_INVALID),
\* raises ConfigEntryNotReady (any other ClientError), or lets the error
\* through (no ClientError).
SetupOutcome(lookup) ==
    IF lookup = "ok" THEN "True"
    ELSE IF lookup = "API_KEY_INVALID" THEN "False"
    ELSE IF lookup \in ClientErrorReasons THEN "ConfigEntryNotReady"
    ELSE lookup

\* Lines 121-124: async_setup_entry configures genai with the entry's key and
\* awaits the lookup of the model in the executor.
SetupBegin(e) ==
    /\ lifecycleCalls < MaxLifecycleCalls
    /\ entry_calls[e].pc = "idle"
    /\ api_key' = ApiKeyOf(e)
    /\ entry_calls' = [entry_calls EXCEPT ![e].pc = "get_model"]
    /\ lifecycleCalls' = lifecycleCalls + 1
    /\ UNCHANGED <<history, lists, minted, turn, turnsStarted, agents>>

\* Lines 124-136: the lookup ends; the agent is set and True returned, or the
\* call ends without setting one.
SetupEnd(e, lookup) ==
    /\ entry_calls[e].pc = "get_model"
    /\ agents' = IF SetsAgent(lookup) THEN agents \cup {e} ELSE agents
    /\ entry_calls' = [entry_calls EXCEPT ![e] =
           [pc |-> "idle",
            last |-> [call |-> "async_setup_entry", outcome |-> SetupOutcome(lookup)],
            set_up |-> entry_calls[e].set_up \/ lookup = "ok"]]
    /\ UNCHANGED <<history, lists, minted, turn, turnsStarted, api_key, lifecycleCalls>>

\* Lines 139-143: async_unload_entry clears the key genai is configured with
\* and unsets the entry's agent.
Unload(e) ==
    /\ lifecycleCalls < MaxLifecycleCalls
    /\ entry_calls[e].pc = "idle"
    /\ api_key' = None
    /\ agents' = agents \ {e}
    /\ entry_calls' = [entry_calls EXCEPT ![e] =
           [pc |-> "idle",
            last |-> [call |-> "async_unload_entry", outcome |-> "True"],
            set_up |-> FALSE]]
    /\ lifecycleCalls' = lifecycleCalls + 1
    /\ UNCHANGED <<history, lists, minted, turn, turnsStarted>>

\* The host sets up and unloads entries, one call per entry at a time, in
\* any order.
NextLifecycle ==
    \/ \E e \in Entries : SetupBegin(e)
    \/ \E e \in Entries, lookup \in LookupOutcomes : SetupEnd(e, lookup)
    \/ \E e \in Entries : Unload(e)

SpecLifecycle == InitLifecycle /\ [][NextLifecycle]_vars

\* ------------------------------------------------------------------ claims

\* The turn in slot p has returned the error result of a failed remote send.
ReturnedRemoteError(p) ==
    /\ turn[p].pc = "done"
    /\ turn[p].result.kind = "error"
    /\ turn[p].result.text[1] = "Sorry, I had a problem talking to Google Generative AI"

\* The turn in slot p has returned the error result of a failed rendering.
ReturnedTemplateError(p) ==
    /\ turn[p].pc = "done"
    /\ turn[p].result.kind = "error"
    /\ turn[p].result.text[1] = "Sorry, I had a problem with my template"

\* The turn in slot p has returned speech.
ReturnedSpeech(p) == turn[p].pc = "done" /\ turn[p].result.kind = "speech"

\* The name of the function call in the first part of a reply, "" when that
\* part carries none.
FirstPartCallName(response) ==
    IF "function_call" \in DOMAIN response.parts[1]
    THEN response.parts[1].function_call.name
    ELSE ""

\* C1: when the first remote send raises a recognized failure, the turn
\* leaves the stored history as it found it: the same keys, and under every
\* key the same messages (compared by role and parts), slots 0 and 1
\* included, also when the prompt rendered in this turn differs from the one
\* stored.
C1_HistoryUnchangedOnRemoteFailure ==
    \A p \in Slots :
        ReturnedRemoteError(p) =>
            /\ DOMAIN Stored = DOMAIN turn[p].pre
            /\ \A c \in DOMAIN Stored :
                   to_contents(Stored[c]) = to_contents(turn[p].pre[c])

\* C2: a turn that follows a turn ended by a remote-generation error, and
\* that is supplied the conversation id that error result carried, is
\* processed under that id, whether the failed turn continued a known
\* conversation or started a new one.
C2_RetryKeepsConversationId ==
    [][\A p \in Slots :
          ( /\ ReturnedRemoteError(p)
            /\ turnsStarted' = turnsStarted + 1
            /\ turn'[p].input_id = turn[p].result.conversation_id )
          => turn'[p].conversation_id = turn[p].result.conversation_id]_vars

\* C3: when the first part of the first reply carries no function call, the
\* turn makes one remote send and no host call, and the text it returns is
\* the text of that reply.
C3_NoFunctionCallSingleSend ==
    \A p \in Slots :
        (turn[p].received # <<>> /\ FirstPartCallName(turn[p].received[1]) = "") =>
            /\ turn[p].sends = 1
            /\ turn[p].calls = <<>>
            /\ turn[p].pc = "done" =>
                   /\ turn[p].result.kind = "speech"
                   /\ turn[p].result.text = turn[p].received[1].parts[1].text

\* C4: no recognized failure of a remote send, the second send's included,
\* escapes async_process: a turn such a failure ends has returned a result.
C4_NoRemoteFailureEscapes ==
    \A p \in Slots :
        ~ ( /\ turn[p].pc = "raised"
            /\ turn[p].raised.at = "send_message_async"
            /\ turn[p].raised.err \in RecognizedErrors )

\* C5: when rendering the prompt raises TemplateError, the turn returns an
\* error result that carries the resolved conversation id (the supplied id
\* when it is a key of the history, a newly minted id otherwise), and the
\* turn has made no remote send, dispatched no host call and left the stored
\* history untouched.
C5_TemplateErrorTouchesNothing ==
    \A p \in Slots :
        ReturnedTemplateError(p) =>
            /\ IF turn[p].input_id \in DOMAIN turn[p].pre
               THEN turn[p].result.conversation_id = turn[p].input_id
               ELSE /\ turn[p].result.conversation_id # turn[p].input_id
                    /\ turn[p].result.conversation_id \in MintedIds
                    /\ turn[p].result.conversation_id \notin DOMAIN turn[p].pre
            /\ turn[p].sends = 0
            /\ turn[p].received = <<>>
            /\ turn[p].calls = <<>>
            /\ Stored = turn[p].pre

\* C5 happens: rendering fails in a turn that continues a stored conversation.
C5_Witness ==
    \E p \in Slots :
        /\ ReturnedTemplateError(p)
        /\ turn[p].input_id \in DOMAIN turn[p].pre
        /\ Len(Stored[turn[p].input_id]) >= 4

\* C6: a turn dispatches at most one host service call, and the call is
\* decided by the function call in the first part of the first reply alone:
\* the light service for control_light, the climate service for
\* set_heating_and_cooling, none otherwise; the reply to the function
\* response changes nothing of it.
C6_OneCallDecidedByFirstPart ==
    \A p \in Slots :
        /\ Len(turn[p].calls) <= 1
        /\ turn[p].received = <<>> => turn[p].calls = <<>>
        /\ turn[p].received # <<>> =>
               LET name == FirstPartCallName(turn[p].received[1])
                   args == turn[p].received[1].parts[1].function_call.args
               IN /\ name = "control_light" =>
                        /\ Len(turn[p].calls) = 1
                        /\ turn[p].calls[1].domain = "homeassistant"
                        /\ turn[p].calls[1].service = args.command
                  /\ name = "set_heating_and_cooling" =>
                        /\ Len(turn[p].calls) = 1
                        /\ turn[p].calls[1].domain = "climate"
                        /\ turn[p].calls[1].service_data.target_temp_low = args.heat_temp
                        /\ turn[p].calls[1].service_data.target_temp_high = args.cool_temp
                  /\ name \notin {"control_light", "set_heating_and_cooling"} =>
                        turn[p].calls = <<>>

\* C6 happens: the reply to the function response carries a function call of
\* its own, and the turn ends with the one call the first reply asked for.
C6_Witness ==
    \E p \in Slots :
        /\ Len(turn[p].received) = 2
        /\ FirstPartCallName(turn[p].received[1]) = "set_heating_and_cooling"
        /\ FirstPartCallName(turn[p].received[2]) = "control_light"
        /\ Len(turn[p].calls) = 1
        /\ turn[p].calls[1].domain = "climate"

\* C7: for a reply whose function call is control_light, the one host call
\* of the turn is in domain homeassistant, on entity light.1234567890 alone,
\* and its service is the command argument, which is turn_on or turn_off.
C7_LightCallIsDeclaredCommand ==
    \A p \in Slots :
        (turn[p].received # <<>>
            /\ FirstPartCallName(turn[p].received[1]) = "control_light") =>
            /\ Len(turn[p].calls) = 1
            /\ turn[p].calls[1].domain = "homeassistant"
            /\ turn[p].calls[1].service_data = [entity_id |-> "light.1234567890"]
            /\ turn[p].calls[1].service =
                   turn[p].received[1].parts[1].function_call.args.command
            /\ turn[p].calls[1].service \in {"turn_on", "turn_off"}

\* C8: for a reply whose function call is set_heating_and_cooling with
\* cool_temp = c and heat_temp = h, the one host call of the turn is
\* climate.set_temperature on climate.thermostat with target_temp_low = h
\* and target_temp_high = c; no light call is made.
C8_ClimateCallLowHeatHighCool ==
    \A p \in Slots :
        (turn[p].received # <<>>
            /\ FirstPartCallName(turn[p].received[1]) = "set_heating_and_cooling") =>
            LET args == turn[p].received[1].parts[1].function_call.args
            IN turn[p].calls =
                   << [domain |-> "climate",
                       service |-> "set_temperature",
                       service_data |-> [target_temp_low |-> args.heat_temp,
                                         target_temp_high |-> args.cool_temp,
                                         entity_id |-> "climate.thermostat"],
                       blocking |-> FALSE] >>

\* C8 happens: cool 77 / heat 74 has been dispatched as low 74 / high 77 in
\* a turn that has returned speech.
C8_Witness ==
    \E p \in Slots :
        /\ ReturnedSpeech(p)
        /\ FirstPartCallName(turn[p].received[1]) = "set_heating_and_cooling"
        /\ turn[p].received[1].parts[1].function_call.args.cool_temp = 77
        /\ turn[p].received[1].parts[1].function_call.args.heat_temp = 74
        /\ Len(turn[p].calls) = 1
        /\ turn[p].calls[1].service_data.target_temp_low = 74
        /\ turn[p].calls[1].service_data.target_temp_high = 77

\* The messages the turn in slot p has exchanged with the remote model: the
\* user text, the first reply, the function-response message and the reply
\* to it.
ExchangeOf(p) ==
    << Content("user", <<TextPart(turn[p].text)>>),
       Content("model", turn[p].received[1].parts),
       Content("user",
               <<[function_response |->
                    [name |-> FirstPartCallName(turn[p].received[1]),
                     response |-> [result |-> <<"Running", turn[p].fc.name, "with",
                                                turn[p].fc.args,
                                                "Command ran successfully!">>]]]>>),
       Content("model", turn[p].received[2].parts) >>

\* C9: after a turn that started a new conversation (supplied id null or no
\* key of the history) and returned speech, the history stored under the
\* returned id is exactly the rendered prompt (role user), the
\* acknowledgement "Ok" (role model) and the messages exchanged in the turn,
\* in that order.
C9_NewConversationHistory ==
    \A p \in Slots :
        (ReturnedSpeech(p) /\ turn[p].input_id \notin DOMAIN turn[p].pre) =>
            /\ turn[p].result.conversation_id \in DOMAIN history
            /\ Stored[turn[p].result.conversation_id] =
                   << Content("user", <<TextPart(turn[p].prompt)>>),
                      Content("model", <<TextPart("Ok")>>) >> \o ExchangeOf(p)

\* C9 happens: a new conversation's first turn has dispatched a light call
\* and returned speech.
C9_Witness ==
    \E p \in Slots :
        /\ ReturnedSpeech(p)
        /\ turn[p].input_id \in ForeignIds
        /\ FirstPartCallName(turn[p].received[1]) = "control_light"
        /\ Len(Stored[turn[p].result.conversation_id]) = 6

\* C10: turn after turn, no step removes a key of the history or shortens
\* the list stored under a key, and a turn that continues a stored
\* conversation and returns speech leaves that list longer than it found it.
C10_HistoryGrows ==
    [][/\ \A c \in DOMAIN history :
              /\ c \in DOMAIN history'
              /\ Len(Stored'[c]) >= Len(Stored[c])
       /\ \A p \in Slots :
              (ReturnedSpeech(p)' /\ turn'[p].input_id \in DOMAIN turn'[p].pre) =>
                  Len(Stored'[turn'[p].conversation_id])
                      > Len(turn'[p].pre[turn'[p].conversation_id])]_vars

\* C10 happens: a turn has continued a stored conversation, returned speech
\* and left its list four messages longer.
C10_Witness ==
    \E p \in Slots :
        /\ ReturnedSpeech(p)
        /\ turn[p].input_id \in DOMAIN turn[p].pre
        /\ Len(Stored[turn[p].conversation_id])
               = Len(turn[p].pre[turn[p].conversation_id]) + 4

\* C11: turns on different conversation ids are independent.  In every step
\* a turn takes, every other turn whose conversation id differs keeps its
\* own record (the id it returns, the calls it dispatched, its result), the
\* list of its chat session and the history stored under its id, whatever
\* the interleaving; the only key the step can add is the stepping turn's id.
C11_DistinctIdsIndependent ==
    [][\A q \in Slots : \A p \in Slots \ {q} :
          (turn'[q] # turn[q]
             /\ turn[p].conversation_id # turn'[q].conversation_id)
          => /\ turn'[p] = turn[p]
             /\ turn[p].chat # 0 => lists'[turn[p].chat] = lists[turn[p].chat]
             /\ \A c \in DOMAIN history :
                    c # turn'[q].conversation_id
                    => c \in DOMAIN history' /\ Stored'[c] = Stored[c]
             /\ DOMAIN history' \subseteq DOMAIN history \cup {turn'[q].conversation_id}]_vars

\* Two conversations started while the other's turn was suspended, both
\* turns returned speech after a dispatched call, both histories stored.
C11_Witness ==
    /\ ReturnedSpeech(1) /\ ReturnedSpeech(2)
    /\ turn[1].pre = <<>> /\ turn[2].pre = <<>>
    /\ turn[1].conversation_id # turn[2].conversation_id
    /\ turn[1].calls # <<>> /\ turn[2].calls # <<>>
    /\ {turn[1].conversation_id, turn[2].conversation_id} \subseteq DOMAIN history
    /\ \A p \in Slots :
          /\ Len(Stored[turn[p].conversation_id]) = 6
          /\ SubSeq(Stored[turn[p].conversation_id], 3, 6) = ExchangeOf(p)

\* The turn in slot p started a conversation: the id supplied was no key of
\* the history.
StartedFresh(p) == turn[p].pc # "idle" /\ turn[p].input_id \notin DOMAIN turn[p].pre

\* The turn in slot p is past the dispatch of the first reply's function call.
PastDispatch(p) ==
    /\ Len(turn[p].received) >= 1
    /\ \/ turn[p].pc \in {"send2", "done"}
       \/ turn[p].pc = "raised" /\ turn[p].raised.at # "async_call"

\* C12: two turns that each start a conversation, with the same user text,
\* the same rendered prompt and the same replies of the remote model, have
\* dispatched the same host calls with the same arguments, and when both
\* return speech the texts are equal; the conversation ids may differ.
C12_FreshTurnsAgree ==
    \A p \in Slots : \A q \in Slots \ {p} :
        (/\ StartedFresh(p) /\ StartedFresh(q)
         /\ turn[p].text = turn[q].text
         /\ turn[p].prompt = turn[q].prompt)
        => /\ (PastDispatch(p) /\ PastDispatch(q)
                  /\ turn[p].received[1] = turn[q].received[1])
              => turn[p].calls = turn[q].calls
           /\ (ReturnedSpeech(p) /\ ReturnedSpeech(q)
                  /\ turn[p].received = turn[q].received)
              => turn[p].result.text = turn[q].result.text

\* Two conversations started with the same text, prompt and replies: both
\* turns dispatched the light call and returned speech under different ids.
C12_Witness ==
    /\ StartedFresh(1) /\ StartedFresh(2)
    /\ ReturnedSpeech(1) /\ ReturnedSpeech(2)
    /\ turn[1].text = turn[2].text /\ turn[1].prompt = turn[2].prompt
    /\ turn[1].received = turn[2].received
    /\ turn[1].conversation_id # turn[2].conversation_id
    /\ Len(turn[1].calls) = 1 /\ turn[1].calls[1].domain = "homeassistant"

\* C13: the steps of a turn come in one order.  While the first send is
\* awaited the prompt has rendered and nothing else has happened; a host call
\* is dispatched only after the first reply has arrived and the history has
\* been stored; while a host call is awaited the function-response message
\* has not been sent; the function-response message is sent only after the
\* first reply and after any host call has completed; a turn that returns
\* speech has sent twice and returns the text of the reply to the
\* function-response message.
C13_StepsInOrder ==
    \A p \in Slots :
        LET t == turn[p]
            persisted == t.conversation_id \in DOMAIN history
                         /\ history[t.conversation_id] = t.chat
        IN /\ t.sends <= 2
           /\ t.pc = "send1"
                => /\ t.prompt \in Prompts /\ t.sends = 1
                   /\ t.received = <<>> /\ t.calls = <<>> /\ t.result = NoResult
           /\ t.calls # <<>> => Len(t.received) >= 1 /\ persisted
           /\ t.pc \in {"light", "climate"}
                => t.sends = 1 /\ Len(t.received) = 1 /\ t.result = NoResult
           /\ t.sends = 2
                => /\ Len(t.received) >= 1 /\ persisted
                   /\ t.pc \in {"send2", "done", "raised"}
           /\ t.pc = "send2" => t.sends = 2 /\ Len(t.received) = 1 /\ t.result = NoResult
           /\ ReturnedSpeech(p)
                => /\ t.sends = 2 /\ Len(t.received) = 2
                   /\ t.result.text = t.received[2].parts[1].text

\* A turn that dispatched the climate call, then sent the function response
\* and returned the text of the reply to it.
C13_Witness ==
    /\ ReturnedSpeech(1)
    /\ Len(turn[1].calls) = 1 /\ turn[1].calls[1].domain = "climate"
    /\ turn[1].sends = 2
    /\ turn[1].result.text = "Done"

\* The first reply of the turn in slot p carries, in its first part, a call of
\* a function other than the two the agent dispatches.
CallsOtherFunction(p) ==
    /\ Len(turn[p].received) >= 1
    /\ FirstPartCallName(turn[p].received[1])
         \notin {"", "control_light", "set_heating_and_cooling"}

\* C14: a turn whose first reply calls a function other than control_light
\* and set_heating_and_cooling makes no host service call, and when it ends
\* it has returned a response.
C14_OtherFunctionNoCallAndReturns ==
    \A p \in Slots :
        CallsOtherFunction(p)
        => /\ turn[p].calls = <<>>
           /\ turn[p].pc # "raised"

\* C15: when hass.services.async_call raises, the exception leaves
\* async_process as it is: the turn has no result, and the function-response
\* message has not been sent (the only send of the turn is the first one).
C15_DispatchFailurePropagates ==
    \A p \in Slots :
        (turn[p].pc = "raised" /\ turn[p].raised.at = "async_call")
        => /\ turn[p].result = NoResult
           /\ turn[p].raised.err \in HostErrors
           /\ turn[p].sends = 1
           /\ Len(turn[p].received) = 1

\* The light call was dispatched and raised ServiceNotFound.
C15_Witness ==
    /\ turn[1].pc = "raised"
    /\ turn[1].raised = [at |-> "async_call", err |-> "ServiceNotFound"]
    /\ Len(turn[1].calls) = 1 /\ turn[1].calls[1].domain = "homeassistant"

\* The transcript the turn in record t opened its chat session on: the
\* history stored under its id when it started (the two-slot skeleton for a
\* new conversation) with slots 0 and 1 set.
OpenedOn(t) ==
    to_contents(SetPromptSlots(IF t.input_id \in DOMAIN t.pre
                               THEN t.pre[t.input_id]
                               ELSE <<EmptyDict, EmptyDict>>,
                               t.prompt))

\* C16: turns on one conversation id do not exclude each other and the last
\* writer wins.  Whenever a turn stores its history (its first reply
\* arrives), the key is bound to that turn's list whatever another turn has
\* stored under it meanwhile, and the list is the transcript the turn
\* started from plus its own user text and reply: an exchange stored by
\* another turn after this one started is not in it.
C16_LastWriterWins ==
    [][\A p \in Slots :
          (Len(turn[p].received) = 0 /\ Len(turn'[p].received) = 1)
          => LET t == turn'[p]
             IN /\ t.conversation_id \in DOMAIN history'
                /\ history'[t.conversation_id] = t.chat
                /\ Stored'[t.conversation_id] =
                       OpenedOn(t) \o <<UserContent(t.text), ModelContent(t.received[1])>>]_vars

\* Two turns continued conversation c from the same stored history (the list
\* is the same object, its slots 0 and 1 reassigned by the first); the turn
\* of slot 1 stored first and returned speech, the turn of slot 2
\* stored last and was ended by the failure of its second send.  The
\* history stored under c is the list of slot 2: it lacks the exchange of
\* slot 1 and is shorter than the list slot 1 had stored.
C16_Witness ==
    LET c == turn[1].conversation_id
    IN /\ turn[2].conversation_id = c
       /\ turn[1].input_id = c /\ turn[2].input_id = c
       /\ c \in DOMAIN turn[1].pre /\ c \in DOMAIN turn[2].pre
       /\ Len(turn[2].pre[c]) = Len(turn[1].pre[c])
       /\ Tail(Tail(turn[2].pre[c])) = Tail(Tail(turn[1].pre[c]))
       /\ ReturnedSpeech(1)
       /\ turn[2].pc = "raised" /\ Len(turn[2].received) = 1
       /\ history[c] = turn[2].chat
       /\ Len(lists[turn[1].chat]) = Len(turn[1].pre[c]) + 4
       /\ Len(Stored[c]) = Len(turn[1].pre[c]) + 2
       /\ SubSeq(lists[turn[1].chat], Len(turn[1].pre[c]) + 1, Len(turn[1].pre[c]) + 4)
            = ExchangeOf(1)
       /\ turn[1].received[1] # turn[2].received[1]

\* The turn in slot p was ended by a failure of the host call or of the
\* second send.
AbortedAfterStore(p) ==
    /\ turn[p].pc = "raised"
    /\ turn[p].raised.at \in {"async_call", "send_message_async"}
    /\ Len(turn[p].received) = 1

\* C17: the history is stored before the dispatch and before the
\* function-response send.  When a turn is ended by a failure of the host
\* call or of the second send, the history stored under its id is the
\* transcript it started from followed by the user text and the model's
\* first reply, with no function response after it; and the next turn on
\* that id opens its chat session on that transcript.
C17_AbortLeavesCallWithoutResponse ==
    /\ [](\A p \in Slots :
            AbortedAfterStore(p)
            => LET t == turn[p]
               IN /\ t.conversation_id \in DOMAIN history
                  /\ Stored[t.conversation_id] =
                         OpenedOn(t) \o <<UserContent(t.text), ModelContent(t.received[1])>>)
    /\ [][\A p \in Slots :
             (/\ AbortedAfterStore(p)
              /\ turn'[p].pc = "send1"
              /\ turn'[p].input_id = turn[p].conversation_id)
             => LET before == Stored[turn[p].conversation_id]
                    opened == lists'[turn'[p].chat]
                IN /\ Len(opened) = Len(before)
                   /\ Tail(Tail(opened)) = Tail(Tail(before))
                   /\ opened[Len(opened)] = ModelContent(turn[p].received[1])]_vars

\* A turn of a new conversation was ended after its history was stored, and
\* the next turn continues that conversation: its chat session is opened on
\* four messages, the last one the climate function call with no function
\* response after it.
C17_Witness ==
    /\ turn[1].pc = "send1"
    /\ turn[1].input_id \in DOMAIN turn[1].pre
    /\ LET h == lists[turn[1].chat]
       IN /\ Len(h) = 4
          /\ h[3] = UserContent("light on")
          /\ h[4] = Content("model", <<FunctionCallPart("set_heating_and_cooling",
                                                         [cool_temp |-> 77, heat_temp |-> 74])>>)

\* C18: every key of the history is an id the agent minted.  A turn whose
\* supplied id was no key of the history (null included) has a newly minted
\* id, different from the supplied one and from every key; the supplied id
\* does not become a key; the result carries the turn's id; the only key the
\* turn adds is its own; and a key is added only in the step in which a
\* turn's first reply arrives.
C18_KeysAreMintedIds ==
    /\ [](/\ DOMAIN history \subseteq MintedIds
          /\ \A p \in Slots :
                LET t == turn[p]
                IN /\ t.result # NoResult => t.result.conversation_id = t.conversation_id
                   /\ StartedFresh(p)
                        => /\ t.conversation_id \in MintedIds
                           /\ t.conversation_id # t.input_id
                           /\ t.conversation_id \notin DOMAIN t.pre
                           /\ t.input_id \notin DOMAIN history
                           /\ DOMAIN history \subseteq DOMAIN t.pre \cup {t.conversation_id}
                           /\ t.conversation_id \in DOMAIN history => Len(t.received) >= 1)
    /\ [][DOMAIN history' # DOMAIN history
           => \E p \in Slots :
                 /\ Len(turn[p].received) = 0 /\ Len(turn'[p].received) = 1
                 /\ DOMAIN history' = DOMAIN history \cup {turn'[p].conversation_id}]_vars

\* The first turn ended without storing, so its id "1" is no key; the next
\* turn supplied "1", got the newly minted "2", returned speech under it and
\* stored its history under it alone.
C18_Witness ==
    /\ ReturnedSpeech(1)
    /\ turn[1].input_id = "1"
    /\ turn[1].conversation_id = "2"
    /\ turn[1].result.conversation_id = "2"
    /\ DOMAIN history = {"2"}

\* The last call made for entry e was a setup that returned True.
LastWasSuccessfulSetup(e) ==
    entry_calls[e].last = [call |-> "async_setup_entry", outcome |-> "True"]

\* C19 as stated: after any sequence of setup and unload calls, an entry has
\* an agent registered exactly when the last call for it was a setup that
\* returned True.
C19_AgentIffLastCallSuccessfulSetup ==
    \A e \in Entries : e \in agents <=> LastWasSuccessfulSetup(e)

\* C19 amended: a setup sets the agent exactly when the lookup succeeded
\* (it returns True then, returns False on API_KEY_INVALID and raises
\* ConfigEntryNotReady on any other ClientError, and in those cases leaves
\* the registered agents as they were); an unload unsets the entry's agent
\* and clears the key; so an entry has an agent registered exactly when a
\* setup of it has succeeded since its last unload, and whenever the last
\* call was a successful setup the agent is registered.
C19_AgentIffSetUpSinceUnload ==
    /\ [](\A e \in Entries :
            /\ e \in agents <=> entry_calls[e].set_up
            /\ LastWasSuccessfulSetup(e) => e \in agents
            /\ entry_calls[e].last.call = "async_unload_entry" => e \notin agents)
    /\ [][\A e \in Entries :
             /\ (entry_calls[e].pc = "get_model" /\ entry_calls'[e].pc = "idle")
                => LET outcome == entry_calls'[e].last.outcome
                   IN /\ outcome = "True" => agents' = agents \cup {e}
                      /\ outcome # "True" => agents' = agents
                      /\ api_key' = api_key
             /\ (lifecycleCalls' # lifecycleCalls
                   /\ entry_calls'[e].pc = "idle"
                   /\ entry_calls'[e].last.call = "async_unload_entry"
                   /\ \A d \in Entries \ {e} : entry_calls'[d] = entry_calls[d])
                => /\ api_key' = None
                   /\ e \notin agents'
                   /\ agents' \subseteq agents]_vars

\* entry1 was set up successfully and set up again with an invalid key: the
\* second call returned False and the agent of the first is still registered.
C19_Witness ==
    /\ "entry1" \in agents
    /\ entry_calls["entry1"].last = [call |-> "async_setup_entry", outcome |-> "False"]
    /\ entry_calls["entry1"].set_up

====
